---- MODULE Spec2Model ----
(***************************************************************************)
(* A model of tkt (src/tkt.py): a run loads the persistent configuration,  *)
(* parses the invocation arguments, merges and validates them, derives the *)
(* branch name, drives git (clone/pull, checkout mainline, create/checkout *)
(* ticket branch) and appends a record to the ticket file.                 *)
(*                                                                         *)
(* Strings and paths are sequences of one-character strings.  None is the  *)
(* Python None.  The configuration file, the argument vector and the       *)
(* filesystem are the environment chosen by Init; the same command line is *)
(* run up to MaxRuns times in succession.                                  *)
(***************************************************************************)
EXTENDS Integers, Sequences, FiniteSets, TLC

VARIABLES confPresent, confFile, argv, runNo, pc, file_cfg, args_cfg, cfg,
          branch_name, trace, repos, files, out, exitStatus, faults

vars == <<confPresent, confFile, argv, runNo, pc, file_cfg, args_cfg, cfg,
          branch_name, trace, repos, files, out, exitStatus, faults>>

(* ------------------------------ bounds --------------------------------- *)

MaxRuns == 2
MaxFaults == 1

(* --------------------------- value universe ---------------------------- *)

None == <<"None">>
Empty == <<>>

Home == <<"/", "h">>

ParentHome == <<"~", "/", "w">>
ParentGone == <<"/", "n">>
ParentArg  == <<"/", "v">>

TicketFileHome == <<"~", "/", "t">>
TicketFileGone == <<"/", "q">>
TicketFileArg  == <<"/", "u">>

RegexFile == <<"i", "/", "(", ".", "*", ")">>
RegexBad  == <<"(">>
RegexArg  == <<".", "*", "/", "(", ".", "*", ")">>

TicketFileUrl  == <<"x", "/", "i", "/", "7">>
TicketArgUrl   == <<"x", "/", "i", "/", "4">>
TicketNoMatch  == <<"x", "/", "p", "/", "4">>
TicketEmptyGrp == <<"x", "/", "i", "/">>

RemoteFileUrl  == <<"g", "/", "r">>
RemoteArgUrl   == <<"g", "/", "s">>
RemoteNoSlash  == <<"s">>
RemoteTrailing == <<"g", "/", "s", "/">>

MainFile == <<"m">>
MainArg  == <<"d">>

RemoteHead == <<"m">>
RemoteBranches == {<<"m">>, <<"d">>}

DirsOnDisk == {<<"/", "h", "/", "w">>, <<"/", "v">>}
InitialLog == <<"*", " ", "o", "\n">>
InitialFiles == [p \in {<<"/", "h", "/", "t">>, <<"/", "u">>} |->
                    IF p = <<"/", "u">> THEN Empty ELSE InitialLog]

(* ------------------------------ helpers -------------------------------- *)

SetMax(S) == CHOOSE x \in S : \A y \in S : y <= x
SetMin(S) == CHOOSE x \in S : \A y \in S : x <= y

\* Path.expanduser(): a leading "~" component is replaced by the home directory.
ExpandUser(p) ==
  IF Len(p) >= 1 /\ p[1] = "~" /\ (Len(p) = 1 \/ p[2] = "/")
  THEN Home \o SubSeq(p, 2, Len(p))
  ELSE p

\* Path(parent / name): joining the empty string leaves the parent unchanged.
JoinPath(parent, name) ==
  IF name = Empty THEN parent ELSE parent \o <<"/">> \o name

IsDir(p) == p \in DirsOnDisk
IsFile(p) == p \in DOMAIN files

\* Python truthiness: None is falsy, a str is truthy iff non-empty, a Path
\* or a compiled Pattern object is always truthy.
Truthy(v, isObject) == v # None /\ (isObject \/ v # Empty)

\* Regular expressions.  The model covers the patterns made of an optional
\* leading greedy dot-star, a literal, and one capture group holding a greedy
\* dot-star; the fixed pattern of the program (dot-star, slash, group) is one
\* of them.  A source that is not of this shape stands for text that
\* re.compile rejects.
GroupSuffix == <<"(", ".", "*", ")">>
DotStar == <<".", "*">>

HasSuffix(s, suf) ==
  Len(s) >= Len(suf) /\ SubSeq(s, Len(s) - Len(suf) + 1, Len(s)) = suf
HasPrefix(s, pre) ==
  Len(s) >= Len(pre) /\ SubSeq(s, 1, Len(pre)) = pre

MetaChars == {"(", ")", ".", "*"}

ReBody(src) == SubSeq(src, 1, Len(src) - Len(GroupSuffix))
ReGreedy(src) == HasPrefix(ReBody(src), DotStar)
ReLiteral(src) ==
  IF ReGreedy(src) THEN SubSeq(ReBody(src), 3, Len(ReBody(src)))
  ELSE ReBody(src)

\* re.compile(src) succeeds
ReCompiles(src) ==
  /\ HasSuffix(src, GroupSuffix)
  /\ \A i \in 1..Len(ReLiteral(src)) : ReLiteral(src)[i] \notin MetaChars

Occurrences(lit, s) ==
  {i \in 1..(Len(s) + 1) :
     /\ i + Len(lit) - 1 <= Len(s)
     /\ SubSeq(s, i, i + Len(lit) - 1) = lit}

\* pattern.search(s): is there a match
ReMatches(src, s) == Occurrences(ReLiteral(src), s) # {}

\* match.group(1): a leading greedy .* takes the last occurrence of the
\* literal, otherwise search() returns the leftmost match.
ReGroup1(src, s) ==
  LET occ == Occurrences(ReLiteral(src), s)
      at  == IF ReGreedy(src) THEN SetMax(occ) ELSE SetMin(occ)
  IN  SubSeq(s, at + Len(ReLiteral(src)), Len(s))

RepoDirRegex == <<".", "*", "/", "(", ".", "*", ")">>


(* --------------------------- configuration ----------------------------- *)

Fields == {"local_repository_parent_dir", "branch_name_regex",
           "ticket_file_path", "ticket_url", "remote_repository_url",
           "main_branch_name"}

\* A TicketConfig.  The three flags record the Python type of the value
\* held: load_config wraps the two paths in Path and compiles the pattern,
\* parse_args leaves all values plain str.
MkConfig(parent, regex, tfile, turl, rurl, mainb, typed) ==
  [local_repository_parent_dir |-> parent,
   branch_name_regex           |-> regex,
   ticket_file_path            |-> tfile,
   ticket_url                  |-> turl,
   remote_repository_url       |-> rurl,
   main_branch_name            |-> mainb,
   parentIsPath                |-> typed,
   regexIsPattern              |-> typed,
   ticketFileIsPath            |-> typed]

NoConfig == MkConfig(None, None, None, None, None, None, FALSE)

\* The raw key/value content of section main; None is a missing key.
RawConfigs ==
  [local_repository_parent_dir : {None, ParentHome, ParentGone},
   branch_name_regex           : {None, RegexBad, RegexFile},
   ticket_file_path            : {None, TicketFileHome, TicketFileGone},
   ticket_url                  : {None, TicketFileUrl},
   remote_repository_url       : {None, RemoteFileUrl},
   main_branch_name            : {None, MainFile}]

NoRaw == [f \in Fields |-> None]

\* the keys load_config requires of the configuration file
RequiredInFile == {"local_repository_parent_dir", "branch_name_regex",
                   "ticket_file_path"}

\* The values of the command-line options; None is an option not given.
\* Of the three options whose keys the file must hold, at most one is given
\* on a command line.
ArgVectors ==
  {av \in [local_repository_parent_dir : {None, ParentArg},
           branch_name_regex           : {None, RegexArg},
           ticket_file_path            : {None, TicketFileArg},
           ticket_url                  : {None, TicketArgUrl, TicketNoMatch,
                                          TicketEmptyGrp},
           remote_repository_url       : {None, RemoteArgUrl, RemoteNoSlash,
                                          RemoteTrailing},
           main_branch_name            : {None, Empty, MainArg}] :
     Cardinality({f \in RequiredInFile : av[f] # None}) <= 1}

Msg(kind, text, a, b) == [kind |-> kind, text |-> text, a |-> a, b |-> b]

read_optional(raw, name) ==
  IF raw[name] # None /\ raw[name] # Empty THEN raw[name] ELSE None

\* read_required raises KeyError for a missing or an empty entry
read_required_fails(raw, name) == raw[name] = None \/ raw[name] = Empty

\* compile_re raises for an empty source and for text re.compile rejects
compile_re_fails(s) == s = None \/ s = Empty \/ ~ReCompiles(s)

\* load_config: the failure it reports, or "ok".  The keyword arguments of
\* the constructor are evaluated in source order.
load_config_error(present, raw) ==
  IF ~present
    THEN Msg("config file error", "config file not found", Empty, Empty)
  ELSE IF read_required_fails(raw, "local_repository_parent_dir")
    THEN Msg("config file is missing entry", "local_repository_parent_dir",
             Empty, Empty)
  ELSE IF compile_re_fails(read_optional(raw, "branch_name_regex"))
    THEN Msg("config file error", "regex", Empty, Empty)
  ELSE IF read_required_fails(raw, "ticket_file_path")
    THEN Msg("config file is missing entry", "ticket_file_path", Empty, Empty)
  ELSE Msg("ok", "", Empty, Empty)

load_config(raw) ==
  MkConfig(raw["local_repository_parent_dir"],
           read_optional(raw, "branch_name_regex"),
           raw["ticket_file_path"],
           read_optional(raw, "ticket_url"),
           read_optional(raw, "remote_repository_url"),
           read_optional(raw, "remote_repository_url"),
           TRUE)

parse_args(av) ==
  MkConfig(av["local_repository_parent_dir"], av["branch_name_regex"],
           av["ticket_file_path"], av["ticket_url"],
           av["remote_repository_url"], av["main_branch_name"], FALSE)

\* lhs.f or rhs.f
OrElse(l, lObj, r) == IF Truthy(l, lObj) THEN l ELSE r
FromLhs(l, lObj) == Truthy(l, lObj)

\* combine raises AttributeError when the value it calls expanduser() on is
\* None or a plain str.
combine_fails(lhs, rhs) ==
  LET pL == FromLhs(lhs.local_repository_parent_dir, lhs.parentIsPath)
      tL == FromLhs(lhs.ticket_file_path, lhs.ticketFileIsPath)
      pOk == IF pL THEN lhs.parentIsPath
             ELSE rhs.parentIsPath /\ rhs.local_repository_parent_dir # None
      tOk == IF tL THEN lhs.ticketFileIsPath
             ELSE rhs.ticketFileIsPath /\ rhs.ticket_file_path # None
  IN  ~(pOk /\ tOk)

combine(lhs, rhs) ==
  LET pL == FromLhs(lhs.local_repository_parent_dir, lhs.parentIsPath)
      gL == FromLhs(lhs.branch_name_regex, lhs.regexIsPattern)
      tL == FromLhs(lhs.ticket_file_path, lhs.ticketFileIsPath)
  IN
  [local_repository_parent_dir |->
      ExpandUser(IF pL THEN lhs.local_repository_parent_dir
                 ELSE rhs.local_repository_parent_dir),
   branch_name_regex |->
      IF gL THEN lhs.branch_name_regex ELSE rhs.branch_name_regex,
   ticket_file_path |->
      ExpandUser(IF tL THEN lhs.ticket_file_path ELSE rhs.ticket_file_path),
   ticket_url |-> OrElse(lhs.ticket_url, FALSE, rhs.ticket_url),
   remote_repository_url |->
      OrElse(lhs.remote_repository_url, FALSE, rhs.remote_repository_url),
   main_branch_name |->
      OrElse(lhs.main_branch_name, FALSE, rhs.main_branch_name),
   parentIsPath     |-> TRUE,
   regexIsPattern   |-> IF gL THEN lhs.regexIsPattern ELSE rhs.regexIsPattern,
   ticketFileIsPath |-> TRUE]

\* validate with the filesystem checks made before the presence checks
validate_FilesystemFirst(c) ==
  IF ~IsDir(ExpandUser(c.local_repository_parent_dir))
    THEN "directory not found"
  ELSE IF ~IsFile(ExpandUser(c.ticket_file_path))
    THEN "file not found"
  ELSE IF ~Truthy(c.remote_repository_url, FALSE)
    THEN "remote_repository_url was not configured"
  ELSE IF ~Truthy(c.branch_name_regex, c.regexIsPattern)
    THEN "branch_name_regex was not configured"
  ELSE "ok"

\* validate: the message of the exception it raises, or "ok"
validate(c) ==
  IF ~Truthy(c.remote_repository_url, FALSE)
    THEN "remote_repository_url was not configured"
  ELSE IF ~Truthy(c.branch_name_regex, c.regexIsPattern)
    THEN "branch_name_regex was not configured"
  ELSE IF ~IsDir(ExpandUser(c.local_repository_parent_dir))
    THEN "directory not found"
  ELSE IF ~IsFile(ExpandUser(c.ticket_file_path))
    THEN "file not found"
  ELSE "ok"

\* get_branch_name: does it raise, and the name it returns
get_branch_name_fails(c) ==
  IF ~c.regexIsPattern \/ c.ticket_url = None THEN TRUE
  ELSE IF ~ReMatches(c.branch_name_regex, c.ticket_url) THEN TRUE
  ELSE ReGroup1(c.branch_name_regex, c.ticket_url) = Empty

get_branch_name(c) == ReGroup1(c.branch_name_regex, c.ticket_url)

\* regex.search(remote_url).group(1) raises AttributeError without a match
repo_dir_fails(remote_url) == ~ReMatches(RepoDirRegex, remote_url)

repo_dir(remote_url, parent_dir) ==
  JoinPath(parent_dir, ReGroup1(RepoDirRegex, remote_url))

RECURSIVE StripSlashes(_)
StripSlashes(u) ==
  IF Len(u) > 0 /\ u[Len(u)] = "/"
  THEN StripSlashes(SubSeq(u, 1, Len(u) - 1))
  ELSE u

\* the directory git clone creates for a url: its last non-empty segment
Humanish(u) ==
  LET t == StripSlashes(u)
  IN  IF ReMatches(RepoDirRegex, t) THEN ReGroup1(RepoDirRegex, t) ELSE t

CloneTarget(parent, url) == JoinPath(parent, Humanish(url))

\* the source directory taken from the name git clone gives the repository
get_source_dir_FromCloneName(c) ==
  CloneTarget(c.local_repository_parent_dir, c.remote_repository_url)

get_source_dir(c) ==
  repo_dir(c.remote_repository_url, c.local_repository_parent_dir)


(* ------------------------------- git ----------------------------------- *)

IsRepo(d) == d \in DOMAIN repos

\* What git answers when nothing goes wrong outside the repository: clone
\* succeeds iff its target is absent, pull iff the directory is a
\* repository, checkout iff the branch exists locally or on the remote,
\* checkout -b iff the branch does not exist yet.  A None among the
\* arguments makes subprocess.run raise before git is started.
GitNatural(cmd, arg, pwd) ==
  IF arg = None \/ pwd = None THEN "nolaunch"
  ELSE IF cmd = "clone"
    THEN (IF IsRepo(CloneTarget(pwd, arg)) THEN "fail" ELSE "ok")
  ELSE IF ~IsRepo(pwd) THEN "fail"
  ELSE IF cmd = "pull" THEN "ok"
  ELSE IF cmd = "checkout"
    THEN (IF arg \in repos[pwd].branches \cup RemoteBranches
          THEN "ok" ELSE "fail")
  ELSE (IF arg # Empty /\ arg \notin repos[pwd].branches
        THEN "ok" ELSE "fail")

\* The answers possible now: the natural one, or an outside failure (git
\* exits non-zero, or cannot be started) while the fault budget lasts.
GitResults(cmd, arg, pwd) ==
  LET nat == GitNatural(cmd, arg, pwd)
  IN  IF nat = "nolaunch" \/ faults >= MaxFaults THEN {nat}
      ELSE {nat, "fail", "nolaunch"}

GitEffect(cmd, arg, pwd, res) ==
  IF res # "ok" THEN repos
  ELSE IF cmd = "clone"
    THEN [d \in DOMAIN repos \cup {CloneTarget(pwd, arg)} |->
            IF d = CloneTarget(pwd, arg)
            THEN [branches |-> {RemoteHead}, head |-> RemoteHead]
            ELSE repos[d]]
  ELSE IF cmd = "pull" THEN repos
  ELSE [repos EXCEPT ![pwd] =
          [branches |-> @.branches \cup {arg}, head |-> arg]]

GitCall(cmd, arg, pwd, res) ==
  [cmd |-> cmd, arg |-> arg, pwd |-> pwd, res |-> res]

\* run_git: one git invocation with answer res; the call is recorded, the
\* repository changes, a fault is counted when the answer is not the
\* natural one.
run_git(cmd, arg, pwd, res) ==
  /\ res \in GitResults(cmd, arg, pwd)
  /\ trace' = Append(trace, GitCall(cmd, arg, pwd, res))
  /\ repos' = GitEffect(cmd, arg, pwd, res)
  /\ faults' = IF res = GitNatural(cmd, arg, pwd) THEN faults ELSE faults + 1

\* run_git raises out of its own handler when it is to print the error of a
\* command that never started (result is None).
run_git_raises(res, show_error_output) ==
  res = "nolaunch" /\ show_error_output

GitErrorMsg(cmd) == Msg("git error", cmd, Empty, Empty)

(* ------------------------------ the run -------------------------------- *)

Running == -1

Init ==
  /\ confPresent \in BOOLEAN
  /\ confFile \in (IF confPresent THEN RawConfigs ELSE {NoRaw})
  /\ argv \in ArgVectors
  /\ runNo = 1
  /\ pc = "start"
  /\ file_cfg = NoConfig
  /\ args_cfg = NoConfig
  /\ cfg = NoConfig
  /\ branch_name = None
  /\ trace = <<>>
  /\ repos = [d \in {} |-> 0]
  /\ files = InitialFiles
  /\ out = <<>>
  /\ exitStatus = Running
  /\ faults = 0

\* sys.exit(code) after printing msg
Exit(msg, code) ==
  /\ out' = Append(out, msg)
  /\ exitStatus' = code
  /\ pc' = "exited"

\* the handler of main ending the process with a failure status
Caught_ExitFailure(text, a, b) == Exit(Msg("error", text, a, b), 1)

\* an exception reaching the handler of main: printed, main returns
Caught(text, a, b) == Exit(Msg("error", text, a, b), 0)

LoadConfigOk ==
  /\ pc = "start"
  /\ load_config_error(confPresent, confFile).kind = "ok"
  /\ file_cfg' = load_config(confFile)
  /\ pc' = "parse_args"
  /\ UNCHANGED <<confPresent, confFile, argv, runNo, args_cfg, cfg,
                 branch_name, trace, repos, files, out, exitStatus, faults>>

LoadConfigFail ==
  /\ pc = "start"
  /\ load_config_error(confPresent, confFile).kind # "ok"
  /\ Exit(load_config_error(confPresent, confFile), 1)
  /\ UNCHANGED <<confPresent, confFile, argv, runNo, file_cfg, args_cfg, cfg,
                 branch_name, trace, repos, files, faults>>

ParseArgsOk ==
  /\ pc = "parse_args"
  /\ argv["ticket_url"] # None
  /\ args_cfg' = parse_args(argv)
  /\ pc' = "combine"
  /\ UNCHANGED <<confPresent, confFile, argv, runNo, file_cfg, cfg,
                 branch_name, trace, repos, files, out, exitStatus, faults>>

\* argparse rejects a command line without --ticket-url with status 2
ParseArgsFail ==
  /\ pc = "parse_args"
  /\ argv["ticket_url"] = None
  /\ Exit(Msg("usage", "--ticket-url is required", Empty, Empty), 2)
  /\ UNCHANGED <<confPresent, confFile, argv, runNo, file_cfg, args_cfg, cfg,
                 branch_name, trace, repos, files, faults>>

\* get_config: TicketConfig.combine(file_cfg, args_cfg).validate()
Merged == combine(file_cfg, args_cfg)
MergeFails == combine_fails(file_cfg, args_cfg)

\* get_config without the call of validate
GetConfigError_NoValidate ==
  IF MergeFails THEN "expanduser" ELSE "ok"

\* the exception get_config catches: raised by combine or by validate
GetConfigError ==
  IF MergeFails THEN "expanduser" ELSE validate(Merged)

CombineValidateOk ==
  /\ pc = "combine"
  /\ GetConfigError = "ok"
  /\ cfg' = Merged
  /\ pc' = "get_branch_name"
  /\ UNCHANGED <<confPresent, confFile, argv, runNo, file_cfg, args_cfg,
                 branch_name, trace, repos, files, out, exitStatus, faults>>

CombineValidateFail ==
  /\ pc = "combine"
  /\ GetConfigError # "ok"
  /\ cfg' = IF MergeFails THEN cfg ELSE Merged
  /\ Exit(Msg("error", GetConfigError, Empty, Empty), 1)
  /\ UNCHANGED <<confPresent, confFile, argv, runNo, file_cfg, args_cfg,
                 branch_name, trace, repos, files, faults>>

Env == <<confPresent, confFile, argv>>
Locals == <<file_cfg, args_cfg, cfg>>

\* main, line 287
GetBranchNameOk ==
  /\ pc = "get_branch_name"
  /\ ~get_branch_name_fails(cfg)
  /\ branch_name' = get_branch_name(cfg)
  /\ pc' = "clone"
  /\ UNCHANGED <<Env, Locals, runNo, trace, repos, files, out, exitStatus,
                 faults>>

GetBranchNameFail ==
  /\ pc = "get_branch_name"
  /\ get_branch_name_fails(cfg)
  /\ Caught("regex did not match the ticket URL", cfg.branch_name_regex,
            cfg.ticket_url)
  /\ UNCHANGED <<Env, Locals, runNo, branch_name, trace, repos, files,
                 faults>>

\* main going from a successful clone straight to the branch creation
CloneRepository_SkipMainline ==
  /\ pc = "clone"
  /\ \E res \in {"ok", "fail", "nolaunch"} :
       /\ run_git("clone", cfg.remote_repository_url,
                  cfg.local_repository_parent_dir, res)
       /\ pc' = IF res = "ok" THEN "create_branch" ELSE "pull"
  /\ UNCHANGED <<Env, Locals, runNo, branch_name, files, out, exitStatus>>

\* clone_repository: never raises (show_error_output is False); pull follows
\* iff it returns False
CloneRepository ==
  /\ pc = "clone"
  /\ \E res \in {"ok", "fail", "nolaunch"} :
       /\ run_git("clone", cfg.remote_repository_url,
                  cfg.local_repository_parent_dir, res)
       /\ pc' = IF res = "ok" THEN "checkout_main" ELSE "pull"
  /\ UNCHANGED <<Env, Locals, runNo, branch_name, files, out, exitStatus>>

\* pull_repository: the directory name is derived first
PullRepository ==
  /\ pc = "pull"
  /\ ~repo_dir_fails(cfg.remote_repository_url)
  /\ \E res \in {"ok", "fail", "nolaunch"} :
       run_git("pull", Empty,
               repo_dir(cfg.remote_repository_url,
                        cfg.local_repository_parent_dir), res)
  /\ pc' = "checkout_main"
  /\ UNCHANGED <<Env, Locals, runNo, branch_name, files, out, exitStatus>>

\* pull_repository, checkout_branch or create_branch reached with a remote
\* url the directory pattern does not match: AttributeError, caught by main
RepoDirRaises ==
  /\ pc \in {"pull", "checkout_main", "create_branch", "checkout_branch"}
  /\ repo_dir_fails(cfg.remote_repository_url)
  /\ Caught("NoneType has no attribute group", Empty, Empty)
  /\ UNCHANGED <<Env, Locals, runNo, branch_name, trace, repos, files,
                 faults>>

\* checkout_branch and create_branch print the error of a failed command
\* and raise when the command never started
GitStep(cmd, arg, next) ==
  /\ ~repo_dir_fails(cfg.remote_repository_url)
  /\ \E res \in {"ok", "fail", "nolaunch"} :
       /\ run_git(cmd, arg,
                  repo_dir(cfg.remote_repository_url,
                           cfg.local_repository_parent_dir), res)
       /\ IF run_git_raises(res, TRUE)
          THEN Caught("NoneType has no attribute stderr", Empty, Empty)
          ELSE /\ pc' = next[res]
               /\ out' = IF res = "ok" THEN out
                         ELSE Append(out, GitErrorMsg(cmd))
               /\ exitStatus' = exitStatus
  /\ UNCHANGED <<Env, Locals, runNo, branch_name, files>>

\* main, lines 294-296
CheckoutMain ==
  /\ pc = "checkout_main"
  /\ GitStep("checkout", cfg.main_branch_name,
             [r \in {"ok", "fail", "nolaunch"} |-> "create_branch"])

\* main, lines 298-300: the branch name is derived again
CreateBranch ==
  /\ pc = "create_branch"
  /\ GitStep("checkout -b", get_branch_name(cfg),
             [r \in {"ok", "fail", "nolaunch"} |->
                IF r = "ok" THEN "append" ELSE "checkout_branch"])

\* main, lines 301-303
CheckoutBranch ==
  /\ pc = "checkout_branch"
  /\ GitStep("checkout", get_branch_name(cfg),
             [r \in {"ok", "fail", "nolaunch"} |-> "append"])

\* the text append_to_ticket_file writes
Record(ticket_name, source_dir, ticket_url, remote_url) ==
  <<"** TODO Ticket: ">> \o ticket_name \o <<"\n">> \o
  <<"   Source: ">> \o source_dir \o <<"\n">> \o
  <<"   Ticket: ">> \o ticket_url \o <<"\n">> \o
  <<"   Remote: ">> \o remote_url \o <<"\n">>

\* the file opened in mode 'w' instead of 'a'
AppendText_Truncating(fs, path, text) ==
  [p \in DOMAIN fs \cup {path} |-> IF p = path THEN text ELSE fs[p]]

\* open(path, 'a') and write: the text goes after the content of the file,
\* a file that does not exist is created
AppendText(fs, path, text) ==
  [p \in DOMAIN fs \cup {path} |->
     IF p = path
     THEN (IF path \in DOMAIN fs THEN fs[path] ELSE Empty) \o text
     ELSE fs[p]]

\* main, lines 304-310
AppendToTicketFile ==
  /\ pc = "append"
  /\ files' = AppendText(files, cfg.ticket_file_path,
                 Record(get_branch_name(cfg), get_source_dir(cfg),
                        cfg.ticket_url, cfg.remote_repository_url))
  /\ out' = Append(out, Msg("updated", "", cfg.ticket_file_path, Empty))
  /\ exitStatus' = 0
  /\ pc' = "exited"
  /\ UNCHANGED <<Env, Locals, runNo, branch_name, trace, repos, faults>>

\* the ticket file cannot be opened for writing: OSError, caught by main
AppendRaises ==
  /\ pc = "append"
  /\ faults < MaxFaults
  /\ faults' = faults + 1
  /\ Caught("OSError", cfg.ticket_file_path, Empty)
  /\ UNCHANGED <<Env, Locals, runNo, branch_name, trace, repos, files>>

\* the same command line is run again
NextRun ==
  /\ pc = "exited"
  /\ runNo < MaxRuns
  /\ runNo' = runNo + 1
  /\ pc' = "start"
  /\ file_cfg' = NoConfig
  /\ args_cfg' = NoConfig
  /\ cfg' = NoConfig
  /\ branch_name' = None
  /\ trace' = <<>>
  /\ out' = <<>>
  /\ exitStatus' = Running
  /\ UNCHANGED <<Env, repos, files, faults>>

Next ==
  \/ LoadConfigOk \/ LoadConfigFail
  \/ ParseArgsOk \/ ParseArgsFail
  \/ CombineValidateOk \/ CombineValidateFail
  \/ GetBranchNameOk \/ GetBranchNameFail
  \/ CloneRepository \/ PullRepository \/ RepoDirRaises
  \/ CheckoutMain \/ CreateBranch \/ CheckoutBranch
  \/ AppendToTicketFile \/ AppendRaises
  \/ NextRun

Spec == Init /\ [][Next]_vars

TypeOK ==
  /\ runNo \in 1..MaxRuns
  /\ faults \in 0..MaxFaults
  /\ exitStatus \in {Running, 0, 1, 2}


(* ---------------- validate applied to any TicketConfig ----------------- *)

AnyConfigs ==
  {MkConfig(parent, regex.v, tfile, TicketArgUrl, rurl, None, regex.t) :
     parent \in {ParentHome, ParentGone, ParentArg},
     regex \in {[v |-> None, t |-> FALSE], [v |-> Empty, t |-> FALSE],
                [v |-> RegexFile, t |-> TRUE]},
     tfile \in {TicketFileHome, TicketFileGone, TicketFileArg},
     rurl \in {None, Empty, RemoteArgUrl}}

ValInit ==
  /\ confPresent = TRUE
  /\ confFile = NoRaw
  /\ argv = NoRaw
  /\ runNo = 1
  /\ pc = "validate"
  /\ file_cfg = NoConfig
  /\ args_cfg = NoConfig
  /\ cfg \in AnyConfigs
  /\ branch_name = None
  /\ trace = <<>>
  /\ repos = [d \in {} |-> 0]
  /\ files = InitialFiles
  /\ out = <<>>
  /\ exitStatus = Running
  /\ faults = 0

ValidateReturns ==
  /\ pc = "validate"
  /\ validate(cfg) = "ok"
  /\ pc' = "validated"
  /\ UNCHANGED <<Env, Locals, runNo, branch_name, trace, repos, files, out,
                 exitStatus, faults>>

ValidateRaises ==
  /\ pc = "validate"
  /\ validate(cfg) # "ok"
  /\ Exit(Msg("error", validate(cfg), Empty, Empty), 1)
  /\ UNCHANGED <<Env, Locals, runNo, branch_name, trace, repos, files,
                 faults>>

ValNext == ValidateReturns \/ ValidateRaises

SpecValidate == ValInit /\ [][ValNext]_vars


(* ------------------------------ claims --------------------------------- *)

\* the merged configuration exists: combine has returned in this run
MergedNow == pc \notin {"start", "parse_args", "combine", "validate"}
             /\ cfg # NoConfig

\* validation has succeeded in this run
ValidatedNow == MergedNow /\ ~(pc = "exited" /\ exitStatus = 1)

PathFields == {"local_repository_parent_dir", "ticket_file_path"}

\* the value a source value takes in the merged configuration
Normalised(f, v) == IF f \in PathFields THEN ExpandUser(v) ELSE v

\* C1: for each of the six fields, a present and non-empty override is the
\* value the merged configuration holds, whatever the configuration file
\* holds for the field.
C1_OverrideWins ==
  MergedNow =>
    \A f \in Fields :
      Truthy(argv[f], FALSE) => cfg[f] = Normalised(f, argv[f])

Cmds(t) == [i \in 1..Len(t) |-> t[i].cmd]
Results(t) == [i \in 1..Len(t) |-> t[i].res]

\* the run ended through the handler of main or with a failure status
EndedInError ==
  exitStatus # 0 \/ \E i \in 1..Len(out) : out[i].kind = "error"

MainBranchConfigured ==
  Truthy(confFile["main_branch_name"], FALSE)
  \/ Truthy(argv["main_branch_name"], FALSE)

\* C2: two runs in succession from an absent repository, git answering
\* naturally, for a validated configuration whose patterns match and whose
\* main branch name is configured: each run ends without error on the
\* ticket branch, the first by clone then create, the second by pull then
\* checkout of the existing branch.
C2_TwoRunsConverge ==
  (/\ pc = "exited"
   /\ runNo \in {1, 2}
   /\ faults = 0
   /\ ValidatedNow
   /\ MainBranchConfigured
   /\ ~get_branch_name_fails(cfg)
   /\ ~repo_dir_fails(cfg.remote_repository_url)
   /\ ReGroup1(RepoDirRegex, cfg.remote_repository_url) # Empty)
  =>
  (/\ ~EndedInError
   /\ IsRepo(get_source_dir(cfg))
   /\ repos[get_source_dir(cfg)].head = get_branch_name(cfg)
   /\ runNo = 1 =>
        /\ Cmds(trace) = <<"clone", "checkout", "checkout -b">>
        /\ trace[1].res = "ok" /\ trace[3].res = "ok"
   /\ runNo = 2 =>
        /\ Cmds(trace) =
             <<"clone", "pull", "checkout", "checkout -b", "checkout">>
        /\ trace[1].res = "fail" /\ trace[4].res = "fail"
        /\ trace[5].res = "ok")

LoadSucceeded == load_config_error(confPresent, confFile).kind = "ok"

\* validate succeeded on the merged configuration and cfg is that instance
ValidateSucceeded ==
  /\ ~combine_fails(file_cfg, args_cfg)
  /\ validate(combine(file_cfg, args_cfg)) = "ok"
  /\ cfg = combine(file_cfg, args_cfg)

\* C3: a step that invokes git, changes a repository or changes a file is
\* taken only in a run whose configuration was loaded and whose merged
\* configuration passed validate; a run where either failed leaves the
\* repositories and the ticket file as they were.
C3_NoEffectBeforeValidation ==
  [][(Len(trace') > Len(trace) \/ repos' # repos \/ files' # files)
       => (LoadSucceeded /\ file_cfg = load_config(confFile)
           /\ ValidateSucceeded)]_vars

C3_Witness ==
  /\ pc = "exited" /\ exitStatus = 1 /\ runNo = 2
  /\ (~LoadSucceeded \/ validate(cfg) # "ok")
  /\ trace = <<>> /\ repos = <<>> /\ files = InitialFiles

\* extraction fails on the validated configuration
ExtractionFails(c) ==
  get_branch_name_fails(c) \/ repo_dir_fails(c.remote_repository_url)

\* C4: when the branch pattern does not match the ticket url or the
\* directory pattern does not match the remote url, no git command has been
\* invoked and nothing has been appended, and the run stops with a message.
C4_ExtractionErrorBeforeEffects ==
  (ValidatedNow /\ ExtractionFails(cfg)) =>
     /\ trace = <<>>
     /\ files = InitialFiles
     /\ pc = "exited" => EndedInError

\* the record block of the ticket file format
ExpectedBlock(b, d, t, r) ==
  <<"** TODO Ticket: ">> \o b \o
  <<"\n", "   Source: ">> \o d \o
  <<"\n", "   Ticket: ">> \o t \o
  <<"\n", "   Remote: ">> \o r \o <<"\n">>

ThisBlock ==
  ExpectedBlock(branch_name,
                get_source_dir(cfg),
                cfg.ticket_url, cfg.remote_repository_url)

RECURSIVE Times(_, _)
Times(b, k) == IF k = 0 THEN <<>> ELSE b \o Times(b, k - 1)

AppendsExactly(text) ==
  files' # files =>
    /\ DOMAIN files' = DOMAIN files
    /\ cfg.ticket_file_path \in DOMAIN files
    /\ \A q \in DOMAIN files :
         files'[q] = IF q = cfg.ticket_file_path
                     THEN files[q] \o text ELSE files[q]

\* C5 as stated: every append adds the record block followed by one blank
\* separator line.
C5_BlockThenBlankLine == [][AppendsExactly(ThisBlock \o <<"\n">>)]_vars

\* C5 amended: every append adds, after the existing content and without
\* changing it, exactly the four lines of one record block and no blank
\* line; the ticket file always is its initial content followed by one
\* block per append, so two runs for one ticket leave two blocks.
C5_AppendAddsOneBlock ==
  /\ [][AppendsExactly(ThisBlock)]_vars
  /\ [](ValidatedNow /\ branch_name # None =>
          \E k \in 0..runNo :
            /\ files[cfg.ticket_file_path] =
                 InitialFiles[cfg.ticket_file_path] \o Times(ThisBlock, k)
            /\ (pc = "exited" /\ out[Len(out)].kind = "updated") => k >= 1)

C5_Witness ==
  /\ pc = "exited" /\ runNo = 2 /\ out[Len(out)].kind = "updated"
  /\ files[cfg.ticket_file_path] =
       InitialFiles[cfg.ticket_file_path] \o ThisBlock \o ThisBlock

\* the checks of validate in the order the specification gives them
FirstFailingCheck(c) ==
  IF c.remote_repository_url \in {None, Empty}
    THEN "remote_repository_url was not configured"
  ELSE IF c.branch_name_regex \in {None, Empty}
    THEN "branch_name_regex was not configured"
  ELSE IF ExpandUser(c.local_repository_parent_dir) \notin DirsOnDisk
    THEN "directory not found"
  ELSE IF ExpandUser(c.ticket_file_path) \notin DOMAIN InitialFiles
    THEN "file not found"
  ELSE "ok"

\* C6: validate reports exactly one error, that of the first failing check
\* in the order remote url, branch pattern, parent directory, ticket file,
\* and returns only when no check fails.
C6_ValidateFailFast ==
  /\ (pc = "exited" /\ exitStatus = 1 /\ cfg # NoConfig) =>
        /\ FirstFailingCheck(cfg) # "ok"
        /\ out = <<Msg("error", FirstFailingCheck(cfg), Empty, Empty)>>
  /\ (pc \notin {"validate", "exited"} /\ cfg # NoConfig) =>
        FirstFailingCheck(cfg) = "ok"

\* a configuration without remote url whose later checks fail as well
C6_Witness ==
  /\ pc = "exited" /\ exitStatus = 1
  /\ cfg.remote_repository_url = None
  /\ cfg.branch_name_regex = None
  /\ cfg.local_repository_parent_dir = ParentGone
  /\ cfg.ticket_file_path = TicketFileGone
  /\ out[1].text = "remote_repository_url was not configured"

\* the git call that is the checkout of the mainline: a checkout made
\* before any branch creation of the run
IsMainlineCheckout(i) ==
  /\ trace[i].cmd = "checkout"
  /\ \A j \in 1..(i - 1) : trace[j].cmd # "checkout -b"

\* C7: when a main branch name is configured, the branch given to the
\* checkout of the mainline is that name: the value of --main-branch-name
\* or the value stored under main_branch_name in the configuration file.
C7_MainlineIsConfiguredBranch ==
  MainBranchConfigured =>
    \A i \in 1..Len(trace) :
      IsMainlineCheckout(i) =>
        /\ trace[i].arg \notin {None, Empty}
        /\ trace[i].arg \in {argv["main_branch_name"],
                              confFile["main_branch_name"]}

\* validation was reached and failed in this run
ValidationFailedNow ==
  /\ LoadSucceeded /\ argv["ticket_url"] # None
  /\ (combine_fails(file_cfg, args_cfg)
      \/ validate(combine(file_cfg, args_cfg)) # "ok")

\* C8: a run that fails to load or to validate the configuration exits with
\* a non-zero status; a run that raises after validation prints a
\* diagnostic and ends with status 0, as does a run that completes.
C8_ExitStatus ==
  pc = "exited" =>
    /\ (~LoadSucceeded \/ ValidationFailedNow) =>
          exitStatus \notin {0, Running}
    /\ (LoadSucceeded /\ argv["ticket_url"] # None /\ ~ValidationFailedNow)
          => /\ exitStatus = 0
             /\ out[Len(out)].kind \in {"error", "updated"}

C8_Witness ==
  /\ pc = "exited" /\ exitStatus = 0 /\ ValidatedNow
  /\ out[Len(out)].kind = "error"
  /\ trace # <<>>

\* C9: for each field other than the ticket url, an unset or empty override
\* and a non-empty value in the configuration file give the value of the
\* file in the merged configuration.
C9_FallThroughToFile ==
  MergedNow =>
    \A f \in Fields \ {"ticket_url"} :
      (~Truthy(argv[f], FALSE) /\ Truthy(confFile[f], FALSE))
        => cfg[f] = Normalised(f, confFile[f])

\* C10: once the first git command has been invoked (for a remote url the
\* directory pattern matches), the run goes through all remaining steps
\* whatever the git commands answer, and makes its append to the ticket
\* file.
C10_GitFailuresNeverAbort ==
  (pc = "exited" /\ trace # <<>>
   /\ ~repo_dir_fails(cfg.remote_repository_url)) =>
     /\ \E i \in 1..Len(trace) : trace[i].cmd = "checkout -b"
     /\ \/ out[Len(out)].kind = "updated"
        \/ out[Len(out)] = Msg("error", "OSError", cfg.ticket_file_path, Empty)

\* the append to the ticket file was reached: made, or refused by the
\* filesystem
AppendReached ==
  \/ out[Len(out)].kind = "updated"
  \/ out[Len(out)] = Msg("error", "OSError", cfg.ticket_file_path, Empty)

\* C11: the creation of the ticket branch is attempted before any checkout
\* of it; the checkout of the same name follows iff the creation did not
\* succeed; and the run reaches the append whether the creation succeeded,
\* the fallback checkout succeeded, or both failed.
C11_CreateThenFallback ==
  (pc = "exited" /\ \E i \in 1..Len(trace) : trace[i].cmd = "checkout -b")
  =>
  LET i == CHOOSE j \in 1..Len(trace) : trace[j].cmd = "checkout -b"
  IN  /\ trace[i].arg = branch_name
      /\ (trace[i].res # "ok") <=>
            (/\ Len(trace) = i + 1
             /\ trace[i + 1].cmd = "checkout"
             /\ trace[i + 1].arg = branch_name)
      /\ trace[i].res = "ok" => Len(trace) = i
      /\ AppendReached

\* C12: clone of the remote url into the parent directory is the first git
\* command of a run; pull is attempted iff the clone did not succeed; and
\* the run goes on to the checkout of the mainline whatever clone and pull
\* answered.
C12_CloneThenPull ==
  (pc = "exited" /\ trace # <<>>)
  =>
  /\ trace[1] = GitCall("clone", cfg.remote_repository_url,
                        cfg.local_repository_parent_dir, trace[1].res)
  /\ (trace[1].res # "ok") <=> (Len(trace) >= 2 /\ trace[2].cmd = "pull")
  /\ \E i \in 1..Len(trace) : IsMainlineCheckout(i)

\* C13: from the first git command of a run on, the main branch name of the
\* configuration is present and non-empty.
C13_MainBranchPresent ==
  trace # <<>> => cfg.main_branch_name \notin {None, Empty}

\* the directory pattern yields no name for the remote url: no match, or an
\* empty group
DirNameMissing(c) ==
  IF repo_dir_fails(c.remote_repository_url) THEN TRUE
  ELSE ReGroup1(RepoDirRegex, c.remote_repository_url) = Empty

\* C14: when the branch pattern or the directory pattern does not match, or
\* matches with an empty group, the run makes no git call and no append, and
\* ends with an error that names the pattern and its input.
C14_ExtractionErrorNamesPatternAndInput ==
  (ValidatedNow /\ pc # "get_branch_name"
   /\ (get_branch_name_fails(cfg) \/ DirNameMissing(cfg)))
  =>
  /\ trace = <<>>
  /\ files = InitialFiles
  /\ pc = "exited" =>
       /\ out[Len(out)].kind = "error"
       /\ IF get_branch_name_fails(cfg)
          THEN /\ out[Len(out)].a = cfg.branch_name_regex
               /\ out[Len(out)].b = cfg.ticket_url
          ELSE /\ out[Len(out)].a = RepoDirRegex
               /\ out[Len(out)].b = cfg.remote_repository_url

\* the text after the last path separator of a url
RECURSIVE LastSegment(_)
LastSegment(u) ==
  IF u = <<>> THEN <<>>
  ELSE IF u[Len(u)] = "/" THEN <<>>
  ELSE LastSegment(SubSeq(u, 1, Len(u) - 1)) \o <<u[Len(u)]>>

\* the parent directory joined with the last path segment of the remote url
RunDirectory ==
  IF LastSegment(cfg.remote_repository_url) = <<>>
  THEN cfg.local_repository_parent_dir
  ELSE cfg.local_repository_parent_dir \o <<"/">> \o
       LastSegment(cfg.remote_repository_url)

CreateCalls == {i \in 1..Len(trace) : trace[i].cmd = "checkout -b"}

\* C15: within a run, pull, checkout of the mainline, branch creation and
\* fallback checkout all run in one directory, the parent directory joined
\* with the last path segment of the remote url; the fallback checkout is
\* given the branch name the creation was given; and the record appended
\* holds that directory as Source and that branch name.
C15_DerivedValuesStable ==
  /\ [](\A i \in 1..Len(trace) :
          /\ trace[i].cmd # "clone" => trace[i].pwd = RunDirectory
          /\ trace[i].cmd = "checkout -b" => trace[i].arg = branch_name
          /\ \A j \in CreateCalls : j < i => trace[i].arg = trace[j].arg)
  /\ [][files' # files =>
          /\ CreateCalls # {}
          /\ \A j \in CreateCalls :
               AppendsExactly(ExpectedBlock(trace[j].arg, trace[j].pwd,
                                            cfg.ticket_url,
                                            cfg.remote_repository_url))]_vars

C15_Witness ==
  /\ pc = "exited" /\ out[Len(out)].kind = "updated"
  /\ Cmds(trace) = <<"clone", "pull", "checkout", "checkout -b", "checkout">>
  /\ cfg.remote_repository_url = RemoteTrailing

IsPrefix(s, t) == Len(s) <= Len(t) /\ SubSeq(t, 1, Len(s)) = s

Appended == \E i \in 1..Len(out) : out[i].kind = "updated"

\* C16: the git commands of a run are a prefix of clone, optional pull,
\* checkout of the mainline, branch creation, optional checkout of the
\* branch, each made at most once and in this order; the append comes after
\* the branch creation, happens at most once, and no git command follows it.
C16_EffectOrder ==
  /\ [](/\ \/ IsPrefix(Cmds(trace),
                       <<"clone", "checkout", "checkout -b", "checkout">>)
           \/ IsPrefix(Cmds(trace),
                       <<"clone", "pull", "checkout", "checkout -b",
                         "checkout">>)
        /\ \A i \in 1..Len(trace) :
             IsMainlineCheckout(i) => trace[i].arg = cfg.main_branch_name
        /\ Appended =>
             /\ pc = "exited"
             /\ CreateCalls # {}
             /\ Cardinality({i \in 1..Len(out) : out[i].kind = "updated"}) = 1)
  /\ [][/\ files' # files => (~Appended /\ trace' = trace /\ pc' = "exited")
        /\ Appended => Len(trace') <= Len(trace)]_vars

C16_Witness ==
  /\ pc = "exited" /\ Appended
  /\ Cmds(trace) = <<"clone", "pull", "checkout", "checkout -b", "checkout">>
  /\ trace[5].res = "ok"

====
